---- MODULE Spec2Model ----
(***************************************************************************)
(* Model of model.py: construction of LSTMLanguageModel (the constructor   *)
(* and _build_model, statement group by statement group) followed by the   *)
(* session runs a driver can make on the built graph (prediction, loss,    *)
(* train_op).                                                              *)
(*                                                                         *)
(* Numbers: probabilities are in tenths (1.0 is written 10); cross-entropy *)
(* values are multiples of 12 so that the batch average is exact for every *)
(* batch size the model draws; gradient values after scaling are fractions *)
(* [n, d] with d = 0 standing for an infinity (n # 0) or a NaN (n = 0).    *)
(***************************************************************************)
EXTENDS Integers, Sequences, FiniteSets, TLC

VARIABLES
    pc,             \* position in __init__ / _build_model, "done" or "error"
    args,           \* the constructor's arguments (config dict and options)
    LSTMCell,       \* self._LSTMCell
    params,         \* self._params
    nodes,          \* the graph's tf.where nodes: __keep_prob, __keep_prob_r, __weight_decay
    sites,          \* which node or op each part of the graph was wired to
    store,          \* the graph's variables: name -> [id, shape, trainable, step]
    scope_reuse,    \* reuse flag of the "stacked_lstm" variable scope
    cells,          \* the cells handed to MultiRNNCell
    time_step,      \* loop variable of the unroll
    state,          \* the unroll's running state
    outputs,        \* the unroll's collected outputs
    calls,          \* one record per cell invocation of the unroll
    self,           \* _initial_state, _final_state, _n_var, t_vars, sess, restored
    result          \* what the last session run returned

vars == <<pc, args, LSTMCell, params, nodes, sites, store, scope_reuse, cells,
          time_step, state, outputs, calls, self, result>>

(***************************************************************************)
(* Bounds of the model                                                     *)
(***************************************************************************)
MaxSteps == 2
MaxBatch == 2
MaxMissing == 1

(***************************************************************************)
(* Python values                                                           *)
(***************************************************************************)
None == [some |-> FALSE, val |-> 0]
Some(x) == [some |-> TRUE, val |-> x]

\* truth value of a Python float or None in "if x:"
Truthy(opt) == opt.some /\ opt.val # 0

\* truth value of a Python str or None in "if s:"
TruthyStr(s) == s \notin {"None", ""}

\* 1.0 in tenths
KeepOne == 10

ConfigKeys ==
    {"num_steps", "vocab_size", "embedding_size", "n_hidden", "n_hidden_hyper", "n_embedding_hyper"}

\* a lookup that yields a default for an absent key, as config.get(key) does
HasKeyLenient(config, key) == TRUE

\* config[key] of a Python dict: a KeyError when the key is absent
HasKey(config, key) == key \in DOMAIN config

RECURSIVE Prod(_)
\* np.prod of a shape list
Prod(sh) == IF sh = <<>> THEN 1 ELSE Head(sh) * Prod(Tail(sh))

RECURSIVE SumSeq(_)
SumSeq(s) == IF s = <<>> THEN 0 ELSE Head(s) + SumSeq(Tail(s))

(***************************************************************************)
(* The arguments the model draws                                           *)
(***************************************************************************)
ConfigValues(key) ==
    CASE key = "num_steps" -> 1..MaxSteps
      [] key = "vocab_size" -> {2, 3}
      [] key = "embedding_size" -> {3}
      [] key = "n_hidden" -> {2}
      [] key = "n_hidden_hyper" -> {1}
      [] key = "n_embedding_hyper" -> {1}

Configs ==
    UNION { { c \in [ConfigKeys \ miss -> 1..3] : \A k \in DOMAIN c : c[k] \in ConfigValues(k) } :
            miss \in { m \in SUBSET ConfigKeys : Cardinality(m) <= MaxMissing } }

\* construction: every option of the constructor, configs with keys missing
Args ==
    [ config : Configs,
      type_of_lstm : {"None", "hypernets", "lstm"},
      load_model : {"None", "ckpt"},
      gradient_clip : {None, Some(0), Some(5), Some(-1)},
      batch_norm : {None, Some(0), Some(9)},
      keep_prob : {5, KeepOne},
      weight_decay : {0, 3},
      layer_norm : BOOLEAN ]

\* runs: complete configs and the options a run's result depends on
RunArgs ==
    { a \in Args : /\ DOMAIN a.config = ConfigKeys
                   /\ a.type_of_lstm # "lstm"
                   /\ a.batch_norm # Some(0)
                   /\ ~a.layer_norm }

ZeroState == [kind |-> "zero", t |-> -1]
Unset == [kind |-> "unset", t |-> -1]

NoParams == [num_units |-> 0, layer_norm |-> FALSE, hyper |-> <<>>, dropout_keep_prob |-> "unset"]

NoSelf ==
    [initial_state |-> Unset, final_state |-> Unset, n_var |-> 0, t_vars |-> <<>>,
     train_op |-> "unset", sess |-> FALSE, restored |-> FALSE]

NoSites == [inputs |-> "unset", fc |-> <<>>, fc_dropout |-> "unset", stacked_axis |-> -1]

NoResult == [op |-> "none"]

Fresh ==
    /\ pc = "init"
    /\ LSTMCell = "unset"
    /\ params = NoParams
    /\ nodes = <<>>
    /\ sites = NoSites
    /\ store = <<>>
    /\ scope_reuse = FALSE
    /\ cells = <<>>
    /\ time_step = 0
    /\ state = Unset
    /\ outputs = <<>>
    /\ calls = <<>>
    /\ self = NoSelf
    /\ result = NoResult

Init == args \in Args /\ Fresh

InitRun == args \in RunArgs /\ Fresh

(***************************************************************************)
(* __init__, lines 68-82                                                   *)
(***************************************************************************)
IsHyper(type_of_lstm) == type_of_lstm = "hypernets"

\* the config keys the constructor's branch reads
CtorKeys(type_of_lstm) ==
    IF IsHyper(type_of_lstm) THEN {"n_hidden", "n_hidden_hyper", "n_embedding_hyper"}
    ELSE {"n_hidden"}

Construct ==
    /\ pc = "init"
    /\ IF CtorKeys(args.type_of_lstm) \subseteq DOMAIN args.config
       THEN /\ LSTMCell' = IF IsHyper(args.type_of_lstm) THEN "HyperLSTMCell" ELSE "CustomLSTMCell"
            /\ params' = [num_units |-> args.config["n_hidden"],
                          layer_norm |-> args.layer_norm,
                          hyper |-> IF IsHyper(args.type_of_lstm)
                                    THEN <<args.config["n_hidden_hyper"], args.config["n_embedding_hyper"]>>
                                    ELSE <<>>,
                          dropout_keep_prob |-> "unset"]
            /\ pc' = "placeholders"
       ELSE /\ pc' = "error"
            /\ UNCHANGED <<LSTMCell, params>>
    /\ UNCHANGED <<args, nodes, sites, store, scope_reuse, cells, time_step, state, outputs,
                   calls, self, result>>

(***************************************************************************)
(* Graph primitives                                                        *)
(***************************************************************************)
\* tf.where(cond, x, y) on scalars, evaluated with the value of cond
Where(cond, x, y) == IF cond THEN x ELSE y

\* a placeholder whose default is True
IsTrainDefaultTrue(feed) == feed # "False"

\* tf.placeholder_with_default(False, []): the fed value, or False when not fed
IsTrainValue(feed) == IF feed = "unfed" THEN FALSE ELSE feed = "True"

\* a variable of the graph
Var(scope, layer, name, shape, trainable) ==
    [scope |-> scope, layer |-> layer, name |-> name, shape |-> shape, trainable |-> trainable]

SameName(v, w) == v.scope = w.scope /\ v.layer = w.layer /\ v.name = w.name

Lookup(st, v) == { i \in 1..Len(st) : SameName(st[i], v) }

\* tf.get_variable under a scope whose reuse flag is `reuse`, while the unroll is
\* at `step`: [store, ok, idx]
GetVariable(st, reuse, v, step) ==
    LET found == Lookup(st, v) IN
    IF reuse
    THEN IF found = {} THEN [store |-> st, ok |-> FALSE, idx |-> 0]
         ELSE [store |-> st, ok |-> TRUE, idx |-> CHOOSE i \in found : TRUE]
    ELSE IF found # {} THEN [store |-> st, ok |-> FALSE, idx |-> 0]
         ELSE [store |-> Append(st, [scope |-> v.scope, layer |-> v.layer, name |-> v.name,
                                     shape |-> v.shape, trainable |-> v.trainable,
                                     step |-> step]),
               ok |-> TRUE, idx |-> Len(st) + 1]

RECURSIVE GetVariables(_, _, _, _)
\* get_variable for each of vs in turn: [store, ok, used]
GetVariables(st, reuse, vs, step) ==
    IF vs = <<>> THEN [store |-> st, ok |-> TRUE, used |-> {}]
    ELSE LET g == GetVariable(st, reuse, Head(vs), step) IN
         IF ~g.ok THEN [store |-> g.store, ok |-> FALSE, used |-> {}]
         ELSE LET r == GetVariables(g.store, reuse, Tail(vs), step) IN
              [store |-> r.store, ok |-> r.ok, used |-> {g.idx} \cup r.used]

(***************************************************************************)
(* _build_model, lines 96-110                                              *)
(***************************************************************************)
BuildPlaceholders ==
    /\ pc = "placeholders"
    /\ IF HasKey(args.config, "num_steps")
       THEN /\ nodes' = [keep_prob |-> [x |-> args.keep_prob, y |-> KeepOne],
                         keep_prob_r |-> [x |-> args.keep_prob, y |-> KeepOne],
                         weight_decay |-> [x |-> args.weight_decay, y |-> 0]]
            /\ pc' = "embedding"
       ELSE /\ pc' = "error"
            /\ UNCHANGED nodes
    /\ UNCHANGED <<args, LSTMCell, params, sites, store, scope_reuse, cells, time_step, state,
                   outputs, calls, self, result>>

BuildEmbedding ==
    /\ pc = "embedding"
    /\ IF {"vocab_size", "embedding_size"} \subseteq DOMAIN args.config
       THEN LET g == GetVariable(store, FALSE,
                                 Var("", 0, "embedding",
                                     <<args.config["vocab_size"], args.config["embedding_size"]>>,
                                     TRUE), 0)
            IN /\ store' = g.store
               /\ sites' = [sites EXCEPT !.inputs = "keep_prob"]
               /\ pc' = IF g.ok THEN "cells" ELSE "error"
       ELSE /\ pc' = "error"
            /\ UNCHANGED <<store, sites>>
    /\ UNCHANGED <<args, LSTMCell, params, nodes, scope_reuse, cells, time_step, state, outputs,
                   calls, self, result>>

(***************************************************************************)
(* _build_model, lines 113-123: the stacked cells                          *)
(***************************************************************************)
\* range(1, 4), the three layers of the class docstring
LayerRangeThree == <<1, 2, 3>>

\* range(1, 3)
LayerRange == <<1, 2>>

RECURSIVE MakeCells(_, _, _)
\* the loop of lines 115-118: one cell per element of the range, each built from
\* the params dict as it stands in that iteration
MakeCells(range, cls, prm) ==
    IF range = <<>> THEN <<>>
    ELSE <<[type |-> cls, params |-> prm]>> \o MakeCells(Tail(range), cls, prm)

BuildCells ==
    /\ pc = "cells"
    /\ params' = [params EXCEPT !.dropout_keep_prob = "keep_prob_r"]
    /\ cells' = MakeCells(LayerRange, LSTMCell, params')
    /\ self' = [self EXCEPT !.initial_state = ZeroState]
    /\ state' = ZeroState
    /\ outputs' = <<>>
    /\ time_step' = 0
    /\ pc' = "unroll"
    /\ UNCHANGED <<args, LSTMCell, nodes, sites, store, scope_reuse, calls, result>>

(***************************************************************************)
(* cells.py (CustomLSTMCell, HyperLSTMCell): the parameters a cell asks    *)
(* for when it is called on an input of width input_size                   *)
(***************************************************************************)
CellVariables(cell, layer, input_size) ==
    LET n == cell.params.num_units
        V(name, shape) == Var("stacked_lstm", layer, name, shape, TRUE)
        main == <<V("kernel", <<input_size + n, 4 * n>>), V("bias", <<4 * n>>)>>
        ln == IF cell.params.layer_norm
              THEN <<V("ln_gates/gamma", <<4 * n>>), V("ln_gates/beta", <<4 * n>>),
                     V("ln_c/gamma", <<n>>), V("ln_c/beta", <<n>>)>>
              ELSE <<>>
        hyper == IF cell.type = "HyperLSTMCell"
                 THEN LET nh == cell.params.hyper[1]
                          ne == cell.params.hyper[2]
                      IN <<V("hyper/kernel", <<input_size + n + nh, 4 * nh>>),
                           V("hyper/bias", <<4 * nh>>),
                           V("hyper/z", <<nh, 4 * ne>>),
                           V("hyper/scale", <<ne, 4 * n>>)>>
                 ELSE <<>>
    IN main \o ln \o hyper

(***************************************************************************)
(* _build_model, lines 124-129: the unroll                                 *)
(***************************************************************************)
\* reuse switched on one step late
ReuseAfterFirst(t) == t > 1

\* line 125: the steps at which reuse_variables() is called
ReuseAt(t) == t > 0

\* every step fed the first time slice
InputSliceFirst(t) == 0

\* line 127: the time slice of the embedded inputs passed to the cells
InputSlice(t) == t

\* MultiRNNCell.__call__: scope "cell_<i>" for the i-th cell, counted from 0
CellScope(i) == i - 1

RECURSIVE CallCells(_, _, _, _, _, _)
\* MultiRNNCell.__call__: the cells in order, each on the output of the one
\* below: [store, ok, used], used[i] the variables cell i read
CallCells(st, reuse, cs, i, input_size, step) ==
    IF i > Len(cs) THEN [store |-> st, ok |-> TRUE, used |-> <<>>]
    ELSE LET g == GetVariables(st, reuse, CellVariables(cs[i], CellScope(i), input_size), step) IN
         IF ~g.ok THEN [store |-> g.store, ok |-> FALSE, used |-> <<>>]
         ELSE LET r == CallCells(g.store, reuse, cs, i + 1, cs[i].params.num_units, step) IN
              [store |-> r.store, ok |-> r.ok, used |-> <<g.used>> \o r.used]

UnrollStep ==
    /\ pc = "unroll"
    /\ time_step < args.config["num_steps"]
    /\ LET reuse == scope_reuse \/ ReuseAt(time_step)
           r == CallCells(store, reuse, cells, 1, args.config["embedding_size"], time_step)
           slice == InputSlice(time_step)
       IN /\ scope_reuse' = reuse
          /\ store' = r.store
          /\ calls' = Append(calls, [time_step |-> time_step, input |-> slice, state_in |-> state,
                                     reuse |-> reuse, used |-> r.used, ok |-> r.ok])
          /\ IF r.ok
             THEN /\ state' = [kind |-> "state", t |-> time_step]
                  /\ outputs' = Append(outputs, [kind |-> "output", t |-> slice])
                  /\ time_step' = time_step + 1
                  /\ pc' = "unroll"
             ELSE /\ pc' = "error"
                  /\ UNCHANGED <<state, outputs, time_step>>
    /\ UNCHANGED <<args, LSTMCell, params, nodes, sites, cells, self, result>>

\* lines 134-137
StackOutputs ==
    /\ pc = "unroll"
    /\ time_step >= args.config["num_steps"]
    /\ sites' = [sites EXCEPT !.stacked_axis = 1]
    /\ self' = [self EXCEPT !.final_state = state]
    /\ pc' = "fully_connected"
    /\ UNCHANGED <<args, LSTMCell, params, nodes, store, scope_reuse, cells, time_step, state,
                   outputs, calls, result>>

(***************************************************************************)
(* _full_connected, lines 19-32, and the output layer, lines 140-152       *)
(***************************************************************************)
\* _full_connected(x, weight_shape, scope="fc", bias=bias) called inside the
\* "fully_connected" scope: [store, ok, ops]
FullConnected(st, weight_shape, bias) ==
    LET w == GetVariable(st, FALSE, Var("fully_connected/fc", 0, "weight", weight_shape, TRUE), 0) IN
    IF ~w.ok THEN [store |-> w.store, ok |-> FALSE, ops |-> <<>>]
    ELSE IF bias
         THEN LET b == GetVariable(w.store, FALSE,
                                   Var("fully_connected/fc", 0, "bias",
                                       <<weight_shape[Len(weight_shape)]>>, TRUE), 0)
              IN [store |-> b.store, ok |-> b.ok, ops |-> <<"matmul", "add_bias">>]
         ELSE [store |-> w.store, ok |-> TRUE, ops |-> <<"matmul">>]

\* tf.contrib.layers.batch_norm with its defaults (center=True, scale=False):
\* a trainable beta and the two moving statistics, one entry per feature
BatchNorm(st, features) ==
    LET vs == <<Var("fully_connected/BatchNorm", 0, "beta", <<features>>, TRUE),
                Var("fully_connected/BatchNorm", 0, "moving_mean", <<features>>, FALSE),
                Var("fully_connected/BatchNorm", 0, "moving_variance", <<features>>, FALSE)>>
        g == GetVariables(st, FALSE, vs, 0)
    IN [store |-> g.store, ok |-> g.ok, ops |-> <<"batch_norm">>]

\* "if self._batch_norm_decay:", which takes a decay of 0 for no decay
UseBatchNormTruthy(batch_norm) == Truthy(batch_norm)

\* line 143: self._batch_norm_decay is not None
UseBatchNorm(batch_norm) == batch_norm.some

BuildFullyConnected ==
    /\ pc = "fully_connected"
    /\ LET weight == <<args.config["n_hidden"], args.config["vocab_size"]>>
           fc == FullConnected(store, weight, ~UseBatchNorm(args.batch_norm))
           bn == IF UseBatchNorm(args.batch_norm) /\ fc.ok
                 THEN BatchNorm(fc.store, args.config["vocab_size"])
                 ELSE [store |-> fc.store, ok |-> fc.ok, ops |-> <<>>]
       IN /\ store' = bn.store
          /\ sites' = [sites EXCEPT !.fc_dropout = "keep_prob",
                                    !.fc = <<"dropout">> \o fc.ops \o bn.ops \o <<"reshape", "softmax">>]
          /\ pc' = IF bn.ok THEN "optimization" ELSE "error"
    /\ UNCHANGED <<args, LSTMCell, params, nodes, scope_reuse, cells, time_step, state, outputs,
                   calls, self, result>>

(***************************************************************************)
(* _build_model, lines 155-187: loss, optimizer, variable count            *)
(***************************************************************************)
\* tf.trainable_variables(): the trainable variables in creation order
TrainableVariables(st) == SelectSeq(st, LAMBDA v : v.trainable)

\* "if self._clip:", which takes a threshold of 0 for no threshold
UseClipTruthy(gradient_clip) == Truthy(gradient_clip)

\* line 171: self._clip is not None
UseClip(gradient_clip) == gradient_clip.some

BuildOptimization ==
    /\ pc = "optimization"
    /\ self' = [self EXCEPT !.t_vars = TrainableVariables(store),
                            !.train_op = IF UseClip(args.gradient_clip)
                                         THEN "apply_clipped" ELSE "minimize"]
    /\ pc' = "count"
    /\ UNCHANGED <<args, LSTMCell, params, nodes, sites, store, scope_reuse, cells, time_step,
                   state, outputs, calls, result>>

RECURSIVE SumProd(_)
\* the loop of lines 180-183
SumProd(vs) == IF vs = <<>> THEN 0 ELSE Prod(Head(vs).shape) + SumProd(Tail(vs))

\* a count that leaves out t_vars[0]
CountVariablesSkipFirst(t_vars) == SumProd(Tail(t_vars))

\* lines 179-183
CountVariables(t_vars) == Prod(t_vars[1].shape) + SumProd(Tail(t_vars))

BuildCount ==
    /\ pc = "count"
    /\ self' = [self EXCEPT !.n_var = CountVariables(self.t_vars)]
    /\ pc' = "session"
    /\ UNCHANGED <<args, LSTMCell, params, nodes, sites, store, scope_reuse, cells, time_step,
                   state, outputs, calls, result>>

(***************************************************************************)
(* __init__, lines 87-91                                                   *)
(***************************************************************************)
LaunchSession ==
    /\ pc = "session"
    /\ self' = [self EXCEPT !.sess = TRUE]
    /\ pc' = IF TruthyStr(args.load_model) THEN "load" ELSE "done"
    /\ UNCHANGED <<args, LSTMCell, params, nodes, sites, store, scope_reuse, cells, time_step,
                   state, outputs, calls, result>>

LoadModel ==
    /\ pc = "load"
    /\ self' = [self EXCEPT !.restored = TRUE]
    /\ pc' = "done"
    /\ UNCHANGED <<args, LSTMCell, params, nodes, sites, store, scope_reuse, cells, time_step,
                   state, outputs, calls, result>>

(***************************************************************************)
(* Session runs on the built graph.  The values of the parameters are not  *)
(* part of the state: a run draws them with its feeds.  A run reads the    *)
(* graph and its feeds only, so a behaviour makes one run: a second run    *)
(* from the same graph would return what a first run with its feeds does.  *)
(***************************************************************************)
\* value of a tf.where node of lines 100-102 under the fed is_train
EvalNode(node, is_train) == Where(is_train, node.x, node.y)

\* the keep probability each dropout site uses in a run
KeepProbs(is_train) ==
    [inputs |-> EvalNode(nodes[sites.inputs], is_train),
     cells |-> [i \in 1..Len(cells) |-> EvalNode(nodes[cells[i].params.dropout_keep_prob], is_train)],
     fc |-> EvalNode(nodes[sites.fc_dropout], is_train)]

(***************************************************************************)
(* Tensors as [shape, data], data in row-major order.  An element of an    *)
(* activation carries the batch element and the time step it belongs to.   *)
(***************************************************************************)
Mixed == [b |-> -1, t |-> -1]

\* the final layer's output of one cell invocation: shape (batch, n_hidden)
CellOutput(out, batch, n_hidden) ==
    [shape |-> <<batch, n_hidden>>,
     data |-> [k \in 1..(batch * n_hidden) |-> [b |-> (k - 1) \div n_hidden, t |-> out.t]]]

\* a stack along axis 0 whatever axis is asked for
StackTimeMajor(ts, axis) ==
    LET n == Len(ts)
        rows == ts[1].shape[1]
        cols == ts[1].shape[2]
    IN [shape |-> <<n, rows, cols>>,
        data |-> [k \in 1..(rows * n * cols) |->
                    LET i == (k - 1) \div (rows * cols)
                        r == ((k - 1) \div cols) % rows
                        c == (k - 1) % cols
                    IN ts[i + 1].data[r * cols + c + 1]]]

\* tf.stack of equally shaped 2-D tensors along axis 0 or 1
Stack(ts, axis) ==
    LET n == Len(ts)
        rows == ts[1].shape[1]
        cols == ts[1].shape[2]
    IN IF axis = 1
       THEN [shape |-> <<rows, n, cols>>,
             data |-> [k \in 1..(rows * n * cols) |->
                         LET r == (k - 1) \div (n * cols)
                             i == ((k - 1) \div cols) % n
                             c == (k - 1) % cols
                         IN ts[i + 1].data[r * cols + c + 1]]]
       ELSE [shape |-> <<n, rows, cols>>,
             data |-> [k \in 1..(rows * n * cols) |->
                         LET i == (k - 1) \div (rows * cols)
                             r == ((k - 1) \div cols) % rows
                             c == (k - 1) % cols
                         IN ts[i + 1].data[r * cols + c + 1]]]

\* tf.reshape(x, [-1, cols])
ReshapeRows(x, cols) == [shape |-> <<Len(x.data) \div cols, cols>>, data |-> x.data]

\* tf.reshape(x, shape) with a full shape
Reshape(x, shape) == [shape |-> shape, data |-> x.data]

\* what an op that combines the entries of one row yields for that row
RowTag(x, r) ==
    LET cols == x.shape[Len(x.shape)]
        tags == { x.data[r * cols + c + 1] : c \in 0..(cols - 1) }
    IN IF Cardinality(tags) = 1 THEN CHOOSE g \in tags : TRUE ELSE Mixed

\* tf.matmul(x, w), x of shape (rows, w_shape[1]): row r of the product is
\* computed from row r of x
MatMul(x, w_shape) ==
    LET rows == x.shape[1]
        out == w_shape[2]
    IN [shape |-> <<rows, out>>,
        data |-> [k \in 1..(rows * out) |-> RowTag(x, (k - 1) \div out)]]

\* tf.nn.softmax over the last axis
Softmax(x) ==
    LET cols == x.shape[Len(x.shape)]
    IN [shape |-> x.shape, data |-> [k \in 1..Len(x.data) |-> RowTag(x, (k - 1) \div cols)]]

\* lines 134-135
Flatten(batch) ==
    ReshapeRows(Stack([i \in 1..Len(outputs) |-> CellOutput(outputs[i], batch, args.config["n_hidden"])],
                      sites.stacked_axis),
                args.config["n_hidden"])

\* lines 141-152; dropout, the bias and batch norm keep each row in its place
Prediction(batch) ==
    Softmax(Reshape(MatMul(Flatten(batch), <<args.config["n_hidden"], args.config["vocab_size"]>>),
                    <<batch, args.config["num_steps"], args.config["vocab_size"]>>))

IsTrainFeeds == {"unfed", "True", "False"}

RunPrediction ==
    /\ pc = "done"
    /\ result = NoResult
    /\ \E feed \in IsTrainFeeds, batch \in 1..MaxBatch :
         result' = [op |-> "prediction", feed |-> feed, batch |-> batch,
                    keep |-> KeepProbs(IsTrainValue(feed)),
                    flat |-> Flatten(batch),
                    prediction |-> Prediction(batch)]
    /\ UNCHANGED <<pc, args, LSTMCell, params, nodes, sites, store, scope_reuse, cells,
                   time_step, state, outputs, calls, self>>

(***************************************************************************)
(* The loss, lines 156-165                                                 *)
(***************************************************************************)
\* the cross-entropy values a run draws: one per batch element and time step
XentPatterns == [a : 0..1, c : 0..1, d : {1}]

Xent(p, b, t) == 12 * (p.a * b + p.c * t + p.d)

RECURSIVE SumOver(_, _, _)
\* sum of f[i] for i in lo..hi
SumOver(f, lo, hi) == IF lo > hi THEN 0 ELSE f[lo] + SumOver(f, lo + 1, hi)

\* a sequence loss averaged over the time steps as well as over the batch
SequenceLossMean(crossent, batch, steps, average_across_timesteps, average_across_batch) ==
    <<SumOver([b \in 0..(batch - 1) |-> SumOver([t \in 0..(steps - 1) |-> crossent[b][t]], 0, steps - 1)],
              0, batch - 1) \div (batch * steps)>>

\* tf.contrib.seq2seq.sequence_loss with weights of ones, on crossent[b][t]:
\* the sequence of the entries of its result (the 1e-12 the library adds to
\* each divisor is left out)
SequenceLoss(crossent, batch, steps, average_across_timesteps, average_across_batch) ==
    LET overBatch(t) == SumOver([b \in 0..(batch - 1) |-> crossent[b][t]], 0, batch - 1)
        overTime(b) == SumOver([t \in 0..(steps - 1) |-> crossent[b][t]], 0, steps - 1)
    IN IF average_across_timesteps /\ average_across_batch
       THEN <<SumOver([b \in 0..(batch - 1) |-> overTime(b)], 0, batch - 1) \div (batch * steps)>>
       ELSE IF average_across_batch
       THEN [t \in 1..steps |-> overBatch(t - 1) \div batch]
       ELSE IF average_across_timesteps
       THEN [b \in 1..batch |-> overTime(b - 1) \div steps]
       ELSE [k \in 1..(batch * steps) |-> crossent[(k - 1) \div steps][(k - 1) % steps]]

\* tf.nn.l2_loss of a variable all of whose entries are e: sum(v ** 2) / 2
L2Loss(v, e) == (Prod(v.shape) * e * e) \div 2

\* line 163
L2Sum(t_vars, e) == SumSeq([i \in 1..Len(t_vars) |-> L2Loss(t_vars[i], e)])

\* lines 156-165
Loss(crossent, batch, e, is_train) ==
    SumSeq(SequenceLoss(crossent, batch, args.config["num_steps"], FALSE, TRUE))
        + EvalNode(nodes.weight_decay, is_train) * L2Sum(self.t_vars, e)

RunLoss ==
    /\ pc = "done"
    /\ result = NoResult
    /\ \E feed \in IsTrainFeeds, batch \in 1..MaxBatch, p \in XentPatterns, e \in {0, 2} :
         LET crossent == [b \in 0..(batch - 1) |->
                            [t \in 0..(args.config["num_steps"] - 1) |-> Xent(p, b, t)]]
         IN result' = [op |-> "loss", feed |-> feed, batch |-> batch, crossent |-> crossent,
                       e |-> e, loss |-> Loss(crossent, batch, e, IsTrainValue(feed))]
    /\ UNCHANGED <<pc, args, LSTMCell, params, nodes, sites, store, scope_reuse, cells,
                   time_step, state, outputs, calls, self>>

(***************************************************************************)
(* The train step, lines 170-176                                           *)
(***************************************************************************)
Frac(n, d) == [n |-> n, d |-> d]

\* 1.0 / x in floating point: an infinity for x = 0
Recip(x) == IF x = 0 THEN Frac(1, 0) ELSE IF x > 0 THEN Frac(1, x) ELSE Frac(-1, -x)

FracLess(a, b) == a.n * b.d < b.n * a.d

\* tf.minimum
Minimum(a, b) == IF FracLess(b, a) THEN b ELSE a

\* square root of a perfect square
ISqrt(n) == CHOOSE r \in 0..n : r * r = n

\* tf.global_norm: sqrt(sum of the squares of all entries)
GlobalNorm(grads) == ISqrt(SumSeq([i \in 1..Len(grads) |-> grads[i] * grads[i]]))

\* tf.clip_by_global_norm(t_list, clip_norm):
\* t * clip_norm * minimum(1 / global_norm, 1 / clip_norm) for each t
ClipByGlobalNorm(grads, clip_norm) ==
    LET m == Minimum(Recip(GlobalNorm(grads)), Recip(clip_norm))
    IN [i \in 1..Len(grads) |-> Frac(grads[i] * clip_norm * m.n, m.d)]

\* the gradients a run draws for the first two trainable variables (one entry
\* each; every other gradient is zero)
GradInputs == {<<0, 0>>, <<3, 4>>, <<6, 8>>, <<-3, 4>>}

\* lines 171-176: the gradients the optimizer applies
AppliedGradients(train_op, grads, gradient_clip) ==
    IF train_op = "apply_clipped"
    THEN ClipByGlobalNorm(grads, gradient_clip.val)
    ELSE [i \in 1..Len(grads) |-> Frac(grads[i], 1)]

RunTrainOp ==
    /\ pc = "done"
    /\ result = NoResult
    /\ \E feed \in IsTrainFeeds, g \in GradInputs :
         LET grads == [i \in 1..Len(self.t_vars) |-> IF i <= 2 THEN g[i] ELSE 0]
         IN result' = [op |-> "train_op", feed |-> feed, grads |-> grads,
                       applied |-> AppliedGradients(self.train_op, grads, args.gradient_clip)]
    /\ UNCHANGED <<pc, args, LSTMCell, params, nodes, sites, store, scope_reuse, cells,
                   time_step, state, outputs, calls, self>>

(***************************************************************************)
(* Specifications                                                          *)
(***************************************************************************)
Build ==
    \/ Construct
    \/ BuildPlaceholders
    \/ BuildEmbedding
    \/ BuildCells
    \/ UnrollStep
    \/ StackOutputs
    \/ BuildFullyConnected
    \/ BuildOptimization
    \/ BuildCount
    \/ LaunchSession
    \/ LoadModel

Next ==
    \/ Build
    \/ RunPrediction
    \/ RunLoss
    \/ RunTrainOp

\* construction from every argument combination
Spec == Init /\ [][Build]_vars

\* construction from a complete config, then a session run
SpecRun == InitRun /\ [][Next]_vars

(***************************************************************************)
(* Properties                                                              *)
(***************************************************************************)
Unrolled == pc \in {"fully_connected", "optimization", "count", "session", "load", "done"}

Built == pc \in {"session", "load", "done"}

StackedVars == { i \in 1..Len(store) : store[i].scope = "stacked_lstm" }

RECURSIVE UnionSeq(_)
UnionSeq(ss) == IF ss = <<>> THEN {} ELSE Head(ss) \cup UnionSeq(Tail(ss))

\* C1: weight tying.  Every variable of the "stacked_lstm" scope is created at
\* time step 0; step 0 runs with reuse off and every later step with reuse on;
\* every step reads exactly the variables step 0 created, which are all the
\* variables of the scope whatever num_steps is; the two layers read disjoint
\* sets of variables; no two variables of the graph carry the same name.
C1_WeightTying ==
    /\ \A i \in StackedVars : store[i].step = 0
    /\ \A i, j \in 1..Len(store) : SameName(store[i], store[j]) => i = j
    /\ \A k \in 1..Len(calls) :
         /\ calls[k].ok
         /\ calls[k].reuse = (calls[k].time_step > 0)
         /\ calls[k].used = calls[1].used
         /\ UnionSeq(calls[k].used) = StackedVars
         /\ \A i, j \in 1..Len(calls[k].used) :
              i # j => calls[k].used[i] \cap calls[k].used[j] = {}
         /\ \A i \in 1..Len(calls[k].used) : calls[k].used[i] # {}

C1_Witness ==
    /\ pc = "done"
    /\ Len(calls) >= 2
    /\ calls[2].reuse
    /\ calls[2].used = calls[1].used
    /\ Len(calls[2].used) = 2

\* the config keys the claim calls required
RequiredKeys ==
    {"num_steps", "vocab_size", "embedding_size", "n_hidden"}
        \cup (IF args.type_of_lstm = "hypernets" THEN {"n_hidden_hyper", "n_embedding_hyper"} ELSE {})

\* C4: with a required config key missing, construction never gets past the
\* embedding: no cell is built, the session is not launched, no model is restored
\* and the object is never complete; with every required key present (for the
\* standard cell the two hyper keys are not required) construction raises no error.
C4_MalformedConfigFatal ==
    /\ ~(RequiredKeys \subseteq DOMAIN args.config) =>
         /\ pc \in {"init", "placeholders", "embedding", "error"}
         /\ ~self.sess
         /\ ~self.restored
         /\ cells = <<>>
    /\ RequiredKeys \subseteq DOMAIN args.config => pc # "error"

C4_Witness ==
    /\ pc = "error"
    /\ "vocab_size" \notin DOMAIN args.config
    /\ "num_steps" \in DOMAIN args.config
    /\ nodes # <<>>
    /\ ~self.sess

C7_Unroll ==
    /\ \A k \in 1..Len(calls) :
         /\ calls[k].time_step = k - 1
         /\ calls[k].input = k - 1
         /\ calls[k].state_in = (IF k = 1 THEN ZeroState ELSE [kind |-> "state", t |-> k - 2])
    /\ Len(outputs) = Len(calls)
    /\ \A k \in 1..Len(outputs) : outputs[k] = [kind |-> "output", t |-> k - 1]
    /\ Len(calls) > 0 => state = [kind |-> "state", t |-> Len(calls) - 1]
    /\ pc = "unroll" => self.initial_state = ZeroState
    /\ Unrolled =>
         /\ Len(calls) = args.config["num_steps"]
         /\ self.final_state = [kind |-> "state", t |-> args.config["num_steps"] - 1]
         /\ self.initial_state = ZeroState

C7_Witness ==
    /\ pc = "done"
    /\ args.config["num_steps"] >= 2
    /\ Len(outputs) = args.config["num_steps"]
    /\ calls[2].state_in = [kind |-> "state", t |-> 0]
    /\ self.final_state = [kind |-> "state", t |-> args.config["num_steps"] - 1]

RECURSIVE SumSizes(_)
\* sum of the sizes of the variables of the store whose indices are in S
SumSizes(S) ==
    IF S = {} THEN 0
    ELSE LET i == CHOOSE x \in S : TRUE IN Prod(store[i].shape) + SumSizes(S \ {i})

\* C8: total_variable_number is the sum, over the trainable variables of the
\* built graph, of the product of the variable's dimensions, each once.
C8_TotalVariableNumber ==
    Built => self.n_var = SumSizes({ i \in 1..Len(store) : store[i].trainable })

C8_Witness ==
    /\ pc = "done"
    /\ UseBatchNorm(args.batch_norm)
    /\ args.type_of_lstm = "hypernets"
    /\ self.n_var > Prod(store[1].shape)
    /\ \E i \in 1..Len(store) : ~store[i].trainable

FcVars(name) ==
    { i \in 1..Len(store) : store[i].scope = "fully_connected/fc" /\ store[i].name = name }

BatchNormVars == { i \in 1..Len(store) : store[i].scope = "fully_connected/BatchNorm" }

C2_DropoutMode ==
    result.op = "prediction" =>
        LET expected == IF result.feed = "True" THEN args.keep_prob ELSE 10
        IN /\ result.keep.inputs = expected
           /\ result.keep.fc = expected
           /\ Len(result.keep.cells) = Len(cells)
           /\ \A i \in 1..Len(result.keep.cells) : result.keep.cells[i] = expected

C2_Witness ==
    /\ result.op = "prediction"
    /\ result.feed = "unfed"
    /\ args.keep_prob = 5
    /\ result.keep.inputs = 10
    /\ result.keep.cells = <<10, 10>>
    /\ result.keep.fc = 10

\* the gradients' global norm is at most c: the entries of gs are fractions
\* over one denominator
NormAtMost(gs, c) ==
    /\ c >= 0
    /\ \A i \in 1..Len(gs) : gs[i].d > 0 /\ gs[i].d = gs[1].d
    /\ SumSeq([i \in 1..Len(gs) |-> gs[i].n * gs[i].n]) <= (c * gs[1].d) * (c * gs[1].d)

\* C3 as stated: with any threshold but None the train step applies clipped
\* gradients whose global norm is at most the threshold whenever the raw norm
\* exceeds it; with None it applies the raw gradients.
C3_ClipAnyThreshold ==
    result.op = "train_op" =>
        IF args.gradient_clip # None
        THEN /\ self.train_op = "apply_clipped"
             /\ GlobalNorm(result.grads) > args.gradient_clip.val =>
                  NormAtMost(result.applied, args.gradient_clip.val)
        ELSE /\ self.train_op = "minimize"
             /\ result.applied = [i \in 1..Len(result.grads) |-> Frac(result.grads[i], 1)]

\* C3, amended: the same for every threshold that is not negative, 0 included.
C3_ClipNonNegativeThreshold ==
    result.op = "train_op" =>
        IF args.gradient_clip # None
        THEN /\ self.train_op = "apply_clipped"
             /\ (args.gradient_clip.val >= 0 /\ GlobalNorm(result.grads) > args.gradient_clip.val) =>
                  NormAtMost(result.applied, args.gradient_clip.val)
        ELSE /\ self.train_op = "minimize"
             /\ result.applied = [i \in 1..Len(result.grads) |-> Frac(result.grads[i], 1)]

C3_Witness ==
    /\ result.op = "train_op"
    /\ args.gradient_clip = Some(5)
    /\ GlobalNorm(result.grads) = 10
    /\ result.applied[1].n * 2 = result.applied[1].d * 6
    /\ result.applied[2].n * 2 = result.applied[2].d * 8

RECURSIVE SumCrossent(_, _, _)
\* sum of all entries of x[b][t], b below batch and t below steps
SumCrossent(x, batch, steps) ==
    IF batch = 0 THEN 0
    ELSE SumOver(x[batch - 1], 0, steps - 1) + SumCrossent(x, batch - 1, steps)

\* C5: the loss is the cross-entropy summed over the time steps and averaged
\* over the batch, plus, in training mode only, weight_decay times the L2 term
\* (half the sum of squares) of the trainable variables.
C5_Loss ==
    result.op = "loss" =>
        LET l2 == (SumSizes({ i \in 1..Len(store) : store[i].trainable }) * result.e * result.e) \div 2
            wd == IF result.feed = "True" THEN args.weight_decay ELSE 0
        IN result.batch * result.loss =
             SumCrossent(result.crossent, result.batch, args.config["num_steps"])
                 + result.batch * wd * l2

C5_Witness ==
    /\ result.op = "loss"
    /\ result.feed = "True"
    /\ args.weight_decay = 3
    /\ result.e = 2
    /\ result.batch = 2
    /\ args.config["num_steps"] = 2
    /\ result.crossent[1][1] > result.crossent[0][0]
    /\ result.loss > 3 * 2 * Len(self.t_vars)

\* C9: row b * num_steps + t of the flattened outputs holds the output of batch
\* element b at time step t, and the prediction at (b, t, v) is computed from
\* that row, for every b, t and v.
C9_MergeUnmerge ==
    result.op = "prediction" =>
        LET T == args.config["num_steps"]
            H == args.config["n_hidden"]
            V == args.config["vocab_size"]
        IN /\ result.flat.shape = <<result.batch * T, H>>
           /\ result.prediction.shape = <<result.batch, T, V>>
           /\ Len(result.prediction.data) = result.batch * T * V
           /\ \A b \in 0..(result.batch - 1), t \in 0..(T - 1) :
                /\ \A h \in 0..(H - 1) :
                     result.flat.data[(b * T + t) * H + h + 1] = [b |-> b, t |-> t]
                /\ \A v \in 0..(V - 1) :
                     result.prediction.data[(b * T + t) * V + v + 1] = [b |-> b, t |-> t]

C9_Witness ==
    /\ result.op = "prediction"
    /\ result.batch = 2
    /\ args.config["num_steps"] = 2
    /\ result.flat.data[2 * args.config["n_hidden"] + 1] = [b |-> 1, t |-> 0]
    /\ result.prediction.data[args.config["vocab_size"] + 1] = [b |-> 0, t |-> 1]
====
